---- MODULE Spec2Model ----
(***************************************************************************)
(* State-machine model of src/api/videos.ts: the video upload handler      *)
(* (handlerUploadVideo), the media prober (getVideoOrientation), the       *)
(* orientation classifier (getVideoOrientationFromDimensions) and the      *)
(* thumbnail upload handlers (handlerUploadThumbnail).                     *)
(*                                                                         *)
(* The specifications share the variables:                                 *)
(*   Spec           concurrent upload requests against one record store,   *)
(*                  one scratch directory and one storage bucket;          *)
(*   SpecClassify   the classifier applied to bounded width/height pairs;  *)
(*   SpecMixed      one video upload beside one thumbnail upload (the      *)
(*                  handler that keeps the thumbnails in memory);          *)
(*   SpecThumbnail  concurrent thumbnail uploads, thumbnails in memory;    *)
(*   SpecAsset      concurrent thumbnail uploads, thumbnails as files      *)
(*                  under cfg.assetsRoot.                                  *)
(***************************************************************************)
EXTENDS Integers, Sequences, FiniteSets, TLC

VARIABLES
    db,       \* cfg.db: the video records, by id
    s3,       \* the bucket: the objects whose write has completed
    tmp,      \* the files present in /tmp
    names,    \* the values randomBytes(32) has returned so far
    pc,       \* per request: the await the handler is suspended at
    input,    \* per request: path parameter, bearer token, form data
    local,    \* per request: the handler's local variables
    resp,     \* per request: the response, or the error thrown
    hist,     \* per request: the I/O it has begun and ended, in order
    proc,     \* per request: the ffprobe child process and its two pipes
    videoThumbnails, \* the module's Map from video id to Thumbnail
    assets,   \* the files present under cfg.assetsRoot
    pendingWrites,   \* the Bun.write promises nobody awaits
    tpc,      \* per thumbnail request: the await it is suspended at
    tinput,   \* per thumbnail request: path parameter, token, form data
    tlocal,   \* per thumbnail request: the handler's local variables
    tresp,    \* per thumbnail request: the response, or the error thrown
    cdim,     \* classifier run: the <<width, height>> under test
    cscale,   \* classifier run: the scaling factor k
    corient,  \* classifier run: the result for (width, height)
    cscaled   \* classifier run: the result for (k * width, k * height)

vars == <<db, s3, tmp, names, pc, input, local, resp, hist, proc,
          videoThumbnails, assets, pendingWrites, tpc, tinput, tlocal, tresp,
          cdim, cscale, corient, cscaled>>

uploadVars == <<db, s3, tmp, names, pc, input, local, resp, hist, proc>>
classifyVars == <<cdim, cscale, corient, cscaled>>
thumbVars == <<videoThumbnails, assets, pendingWrites, tpc, tinput, tlocal,
               tresp>>

(***************************************************************************)
(* IEEE-754 binary64 arithmetic, as far as the classifier uses it.         *)
(* A JavaScript number is a double.  A non-negative double is held here as *)
(* a binary fixed-point numeral: a sequence of FixInt + FixFrac bits, most *)
(* significant first, of which at most Mantissa consecutive bits starting  *)
(* at the leading one are set.  TLC's integers are 32 bits wide, so the    *)
(* 53-bit significands are never held in one integer.                      *)
(***************************************************************************)

\* significand width of a double (the type `number` of ratio and tolerance)
Mantissa == 53

\* integer and fractional bits of the fixed-point grid; wide enough that
\* every quotient of the modelled dimensions keeps its guard bit on the grid
FixInt == 16
FixFrac == 84

\* a numeral written out digit by digit (a tuple, not a rule to compute it)
Bits(f) == f \o <<>>

\* 2^n
RECURSIVE Pow2(_)
Pow2(n) == IF n = 0 THEN 1 ELSE 2 * Pow2(n - 1)

\* n as len bits, most significant first
IntToBits(n, len) == Bits([i \in 1..len |-> (n \div Pow2(len - i)) % 2])

\* 2^n mod h by repeated squaring (every product stays below 2^31 for
\* h < 2^15)
RECURSIVE PowMod2(_, _)
PowMod2(n, h) ==
    IF n = 0
    THEN 1 % h
    ELSE LET half == PowMod2(n \div 2, h)
             sq   == (half * half) % h
         IN  IF n % 2 = 1 THEN (2 * sq) % h ELSE sq

\* long division of r by h (r < h): the remainder left after i quotient
\* bits is r * 2^i mod h, and quotient bit i is set when doubling the
\* remainder before it reaches h
FracRem(r, h, i) == (r * PowMod2(i, h)) % h

FracDiv(r, h, len) ==
    [bits |-> Bits([i \in 1..len |->
                       IF 2 * FracRem(r, h, i - 1) >= h THEN 1 ELSE 0]),
     rem  |-> FracRem(r, h, len)]

\* index of the leading one of a numeral, 0 when it is zero
LeadingOne(x) ==
    IF \A i \in 1..Len(x) : x[i] = 0
    THEN 0
    ELSE CHOOSE i \in 1..Len(x) : x[i] = 1 /\ \A j \in 1..(i - 1) : x[j] = 0

\* x + one unit in the position pos, carrying towards the leading end
AddUlp(x, pos) ==
    LET j == CHOOSE k \in 1..pos :
                 x[k] = 0 /\ \A m \in (k + 1)..pos : x[m] = 1
    IN  Bits([i \in 1..Len(x) |->
                 IF i = j THEN 1 ELSE IF i > j /\ i <= pos THEN 0 ELSE x[i]])

\* round-to-nearest, ties-to-even, of the exact value x (+ a non-zero tail
\* below the grid when sticky) to Mantissa significant bits
RoundToDouble(x, sticky) ==
    LET p    == LeadingOne(x)
        last == p + Mantissa - 1
    IN  IF p = 0 \/ last >= Len(x)
        THEN x
        ELSE LET guard == x[last + 1]
                 rest  == sticky \/ \E i \in (last + 2)..Len(x) : x[i] = 1
                 kept  == Bits([i \in 1..Len(x) |->
                                    IF i <= last THEN x[i] ELSE 0])
             IN  IF guard = 1 /\ (rest \/ x[last] = 1)
                 THEN AddUlp(kept, last)
                 ELSE kept

\* the double nearest to the quotient w / h of two positive integers:
\* JavaScript's `w / h` on integer-valued doubles, and the value of a
\* decimal literal such as 0.05 (5 / 100)
FloatDiv(w, h) ==
    LET q == FracDiv(w % h, h, FixFrac)
    IN  RoundToDouble(IntToBits(w \div h, FixInt) \o q.bits, q.rem # 0)

\* x <= y on numerals
FloatLeq(x, y) ==
    \/ x = y
    \/ \E i \in 1..Len(x) : x[i] < y[i] /\ \A j \in 1..(i - 1) : x[j] = y[j]

\* exact x - y for x >= y: position i borrows when the digits below it
\* form a smaller numeral in x than in y
SubBits(x, y) ==
    LET Borrow(i) ==
            \E k \in (i + 1)..Len(x) :
                x[k] < y[k] /\ \A j \in (i + 1)..(k - 1) : x[j] = y[j]
    IN  Bits([i \in 1..Len(x) |->
                 (x[i] - y[i] - (IF Borrow(i) THEN 1 ELSE 0) + 2) % 2])

\* Math.abs(x - y): the subtraction rounds its exact result to a double
FloatAbsDiff(x, y) ==
    IF FloatLeq(y, x)
    THEN RoundToDouble(SubBits(x, y), FALSE)
    ELSE RoundToDouble(SubBits(y, x), FALSE)

(***************************************************************************)
(* Orientation classifier                                                  *)
(***************************************************************************)

VideoOrientation == {"landscape", "portrait", "other"}

\* const tolerance = 0.05
tolerance == FloatDiv(5, 100)

\* the target ratios 16 / 9 and 9 / 16, each one double division
landscapeRatio == FloatDiv(16, 9)
portraitRatio == FloatDiv(9, 16)

\* the tolerance taken on the pixel distance from a 16:9 or 9:16 frame of
\* the same height, not on the ratio
getVideoOrientationFromDimensions_PixelTolerance(width, height) ==
    IF 9 * width - 16 * height \in -9..9
    THEN "landscape"
    ELSE IF 16 * width - 9 * height \in -16..16
         THEN "portrait"
         ELSE "other"

getVideoOrientationFromDimensions(width, height) ==
    LET ratio == FloatDiv(width, height)
    IN  IF FloatLeq(FloatAbsDiff(ratio, landscapeRatio), tolerance)
        THEN "landscape"
        ELSE IF FloatLeq(FloatAbsDiff(ratio, portraitRatio), tolerance)
             THEN "portrait"
             ELSE "other"

(***************************************************************************)
(* Classifier runs (SpecClassify)                                          *)
(***************************************************************************)

\* bounds of the width/height pairs and of the scaling factor
MaxDim == 16
MaxScale == 3

\* pairs named by the specification, and the pairs whose exact ratio lies
\* at distance 0.05 from 16/9 (329:180, 311:180) or from 9/16 (49:80, 41:80)
SampleDims ==
    {<<1920, 1080>>, <<1080, 1920>>, <<800, 800>>, <<1280, 720>>,
     <<329, 180>>, <<311, 180>>, <<49, 80>>, <<41, 80>>}

Dims == ((1..MaxDim) \X (1..MaxDim)) \cup SampleDims

NoCall == "none"

Classify ==
    /\ corient = NoCall
    /\ corient' = getVideoOrientationFromDimensions(cdim[1], cdim[2])
    /\ UNCHANGED <<cdim, cscale, cscaled, uploadVars, thumbVars>>

ClassifyScaled ==
    /\ cscaled = NoCall
    /\ cscaled' = getVideoOrientationFromDimensions(cscale * cdim[1],
                                                    cscale * cdim[2])
    /\ UNCHANGED <<cdim, cscale, corient, uploadVars, thumbVars>>

(***************************************************************************)
(* Values of the upload handler                                            *)
(***************************************************************************)

\* A string built by a template literal or by path.join is the sequence of
\* its parts; NoURL is a videoURL / thumbnailURL that is not set.
NoURL == <<>>

cfg == [s3Bucket |-> "tubely", s3Region |-> "eu-west-1", jwtSecret |-> "s3cr3t",
        port |-> "8091", assetsRoot |-> "./assets"]

\* the requests in flight together
Reqs == {"r1", "r2"}

NoVideo == [id |-> "", userID |-> "", videoURL |-> NoURL, thumbnailURL |-> NoURL]

\* the records present when the requests arrive
InitialVideos ==
    [id \in {"v1", "v2"} |->
        [id |-> id, userID |-> IF id = "v1" THEN "u1" ELSE "u2",
         videoURL |-> NoURL, thumbnailURL |-> NoURL]]

\* const MAX_UPLOAD_SIZE = 1 << 30
MAX_UPLOAD_SIZE == Pow2(30)

VideoMp4 == <<"video", "mp4">>

NoFile == [isFile |-> FALSE, size |-> 0, type |-> <<"", "">>]

\* formData.get("video"): absent, or a File with a size and a declared type
Files ==
    {NoFile} \cup
    [isFile : {TRUE}, size : {MAX_UPLOAD_SIZE, MAX_UPLOAD_SIZE + 1},
     type : {VideoMp4, <<"image", "png">>}]

\* req.params.videoId ("" when absent; "v9" names no record), the bearer
\* token and the form data
Inputs == [videoId : {"", "v1", "v9"}, token : {"garbage", "jwt-u1", "jwt-u2"},
           video : Files]

NoInput == [videoId |-> "", token |-> "", video |-> NoFile]

Err(name, message) == [name |-> name, message |-> message]
NoError == Err("", "")

\* the error classes of ./errors and the status the server answers them with
StatusOf(e) ==
    CASE e.name = "BadRequestError" -> 400
      [] e.name = "UserNotAuthenticatedError" -> 401
      [] e.name = "UserForbiddenError" -> 403
      [] e.name = "NotFoundError" -> 404
      [] OTHER -> 500

\* getBearerToken + validateJWT of ../auth: the user id, or a throw
validateJWT(token) ==
    CASE token = "jwt-u1" -> [ok |-> TRUE, userID |-> "u1", error |-> NoError]
      [] token = "jwt-u2" -> [ok |-> TRUE, userID |-> "u2", error |-> NoError]
      [] OTHER -> [ok |-> FALSE, userID |-> "",
                   error |-> Err("UserNotAuthenticatedError", "Invalid token")]

\* getVideo / updateVideo of ../db/videos
getVideo(d, videoId) == IF videoId \in DOMAIN d THEN d[videoId] ELSE NoVideo

updateVideo(d, video) ==
    IF video.id \in DOMAIN d THEN [d EXCEPT ![video.id] = video] ELSE d

\* randomBytes(32).toString("hex"): 256 random bits, modelled as a value
\* that no earlier call returned
RandomNames == {"5f2a", "c81e"}

\* path.join("/tmp", filename)
filepathOf(filename) == <<"/tmp", "/">> \o filename

\* the key without the orientation prefix
keyOf_NoOrientation(videoOrientation, filename) == filename

\* `${videoOrientation}/${filename}`
keyOf(videoOrientation, filename) == <<videoOrientation, "/">> \o filename

\* the videoURL as the bare key of the object
videoURLOf_KeyOnly(videoOrientation, filename) ==
    keyOf(videoOrientation, filename)

\* `https://${cfg.s3Bucket}.s3.${cfg.s3Region}.amazonaws.com/${key}`
videoURLOf(videoOrientation, filename) ==
    <<"https://", cfg.s3Bucket, ".s3.", cfg.s3Region, ".amazonaws.com/">>
        \o keyOf(videoOrientation, filename)

(***************************************************************************)
(* Values of the thumbnail handlers                                        *)
(***************************************************************************)

\* the thumbnail requests in flight together
ThumbReqs == {"t1", "t2"}

\* const MAX_UPLOAD_SIZE = 10 << 20 (lines 190, 294)
MAX_UPLOAD_SIZE_THUMBNAIL == 10 * Pow2(20)

\* const allowedMimeTypes = ["image/jpeg", "image/png"]
allowedMimeTypes == {<<"image", "jpeg">>, <<"image", "png">>}

\* formData.get("thumbnail"): absent, or a File with a size and a type
ThumbFiles ==
    {NoFile} \cup
    [isFile : {TRUE},
     size : {MAX_UPLOAD_SIZE_THUMBNAIL, MAX_UPLOAD_SIZE_THUMBNAIL + 1},
     type : {<<"image", "png">>, <<"text", "plain">>}]

ThumbInputs == [videoId : {"", "v1", "v9"},
                token : {"garbage", "jwt-u1", "jwt-u2"},
                thumbnail : ThumbFiles]

NoThumbInput == [videoId |-> "", token |-> "", thumbnail |-> NoFile]

\* type Thumbnail = { data, mediaType }; data is named by the request that
\* sent the bytes
NoThumbnail == [data |-> "", mediaType |-> <<"", "">>]

\* new Map()
EmptyMap == [v \in {} |-> NoThumbnail]

\* Map.prototype.set
MapSet(m, k, v) == [x \in DOMAIN m \cup {k} |-> IF x = k THEN v ELSE m[x]]

\* a media type as the string thumbnail.type holds, `${group}/${subtype}`
mediaTypeOf(type) == <<type[1], "/", type[2]>>

\* `http://localhost:${cfg.port}/api/thumbnails/${videoMetaData.id}`
thumbnailURLOf(id) == <<"http://localhost:", cfg.port, "/api/thumbnails/", id>>

\* `${videoMetaData.id}.${mediaType}`
assetFilenameOf(id, type) == <<id, ".">> \o mediaTypeOf(type)

\* path.join(cfg.assetsRoot, "/", filename)
assetFilepathOf(filename) == <<cfg.assetsRoot, "/">> \o filename

\* `http://localhost:${cfg.port}/assets/${filename}`
assetURLOf(filename) == <<"http://localhost:", cfg.port, "/assets/">> \o filename

NoThumbLocal ==
    [userID |-> "", mediaType |-> <<"", "">>, videoMetaData |-> NoVideo,
     filename |-> <<>>, newVideo |-> NoVideo]

(***************************************************************************)
(* Media prober                                                            *)
(***************************************************************************)

\* a JSON value as `typeof` sees it
Num(n) == [type |-> "number", val |-> n]
Undefined == [type |-> "undefined", val |-> 0]
Str(n) == [type |-> "string", val |-> n]
Null == [type |-> "null", val |-> 0]

\* what ffprobe may print: text that is not JSON, JSON without a stream
\* entry, JSON whose first stream is null, or JSON whose first stream has
\* these width and height
StdoutTexts ==
    {[json |-> FALSE, streams |-> <<>>], [json |-> TRUE, streams |-> <<>>],
     [json |-> TRUE, streams |-> <<Null>>]}
    \cup
    {[json |-> TRUE, streams |-> <<st>>] :
        st \in {[width |-> Num(1920), height |-> Num(1080)],
                [width |-> Num(1080), height |-> Num(1920)],
                [width |-> Num(800), height |-> Num(800)],
                [width |-> Undefined, height |-> Num(1080)],
                [width |-> Num(1920), height |-> Undefined],
                [width |-> Str(1920), height |-> Num(1080)]}}

StderrTexts == {"", "moov atom not found"}

ExitCodes == {0, 1}

Return(v) == [ok |-> TRUE, value |-> v, error |-> NoError]
Raise(e) == [ok |-> FALSE, value |-> "", error |-> e]

\* getVideoOrientation with the exit status examined only when standard
\* output could not be parsed
getVideoOrientation_ExitCheckedLast(exited, stdoutText, stderrText) ==
    IF exited # 0 /\ ~stdoutText.json
    THEN Raise(Err("Error", stderrText))
    ELSE IF ~stdoutText.json
    THEN Raise(Err("SyntaxError", "JSON Parse error"))
    ELSE IF Len(stdoutText.streams) = 0
    THEN Raise(Err("Error", "Stream is not defined"))
    ELSE LET firstStream == stdoutText.streams[1]
         IN  IF "width" \notin DOMAIN firstStream
             THEN Raise(Err("TypeError", "null is not an object"))
             ELSE IF firstStream.width.type # "number"
             THEN Raise(Err("Error", "Width is not a number"))
             ELSE IF firstStream.height.type # "number"
             THEN Raise(Err("Error", "Height is not a number"))
             ELSE Return(getVideoOrientationFromDimensions(
                             firstStream.width.val, firstStream.height.val))

\* getVideoOrientation with the `typeof width` check (lines 111-113) left
\* out: a width that is no number is divided as it is, the ratio is NaN and
\* the classifier answers "other"
getVideoOrientation_WidthUnchecked(exited, stdoutText, stderrText) ==
    IF exited # 0
    THEN Raise(Err("Error", stderrText))
    ELSE IF ~stdoutText.json
    THEN Raise(Err("SyntaxError", "JSON Parse error"))
    ELSE IF Len(stdoutText.streams) = 0
    THEN Raise(Err("Error", "Stream is not defined"))
    ELSE LET firstStream == stdoutText.streams[1]
         IN  IF "width" \notin DOMAIN firstStream
             THEN Raise(Err("TypeError", "null is not an object"))
             ELSE IF firstStream.height.type # "number"
             THEN Raise(Err("Error", "Height is not a number"))
             ELSE IF firstStream.width.type # "number"
             THEN Return("other")
             ELSE Return(getVideoOrientationFromDimensions(
                             firstStream.width.val, firstStream.height.val))

\* getVideoOrientation from `await proc.exited` on: the streams have been
\* read into stdoutText and stderrText
getVideoOrientation(exited, stdoutText, stderrText) ==
    IF exited # 0
    THEN Raise(Err("Error", stderrText))
    ELSE IF ~stdoutText.json
    THEN Raise(Err("SyntaxError", "JSON Parse error"))
    ELSE IF Len(stdoutText.streams) = 0
    THEN Raise(Err("Error", "Stream is not defined"))
    ELSE LET firstStream == stdoutText.streams[1]
         IN  IF "width" \notin DOMAIN firstStream
             THEN Raise(Err("TypeError", "null is not an object"))
             ELSE IF firstStream.width.type # "number"
             THEN Raise(Err("Error", "Width is not a number"))
             ELSE IF firstStream.height.type # "number"
             THEN Raise(Err("Error", "Height is not a number"))
             ELSE Return(getVideoOrientationFromDimensions(
                             firstStream.width.val, firstStream.height.val))

(***************************************************************************)
(* handlerUploadVideo, one action per stretch of code between two awaits   *)
(***************************************************************************)

NoLocal ==
    [userID |-> "", videoMetaData |-> NoVideo, filename |-> <<>>,
     stdoutText |-> [json |-> FALSE, streams |-> <<>>], stderrText |-> "",
     exited |-> 0, videoOrientation |-> "", newVideo |-> NoVideo]

NoResp == [status |-> 0, error |-> NoError, body |-> NoVideo]

\* Bun.spawn with stdout and stderr piped (lines 88-91): each pipe is open
\* until its text has been read to the end; exitRead is set once
\* `await proc.exited` has delivered the exit status
NoProc == [stdout |-> "none", stderr |-> "none", exitRead |-> FALSE]
Spawned == [stdout |-> "open", stderr |-> "open", exitRead |-> FALSE]

\* no thumbnail request has arrived: the map is empty, no asset is on disk
ThumbIdle ==
    /\ videoThumbnails = EmptyMap
    /\ assets = {}
    /\ pendingWrites = {}
    /\ tpc = [t \in ThumbReqs |-> "idle"]
    /\ tinput = [t \in ThumbReqs |-> NoThumbInput]
    /\ tlocal = [t \in ThumbReqs |-> NoThumbLocal]
    /\ tresp = [t \in ThumbReqs |-> NoResp]

\* an entry of a request's I/O history
Ev(op, at, arg) == [op |-> op, at |-> at, arg |-> arg]

Init ==
    /\ db = InitialVideos
    /\ s3 = {}
    /\ tmp = {}
    /\ names = {}
    /\ pc = [r \in Reqs |-> "idle"]
    /\ input = [r \in Reqs |-> NoInput]
    /\ local = [r \in Reqs |-> NoLocal]
    /\ resp = [r \in Reqs |-> NoResp]
    /\ hist = [r \in Reqs |-> <<>>]
    /\ proc = [r \in Reqs |-> NoProc]
    /\ ThumbIdle
    /\ cdim = <<1, 1>>
    /\ cscale = 1
    /\ corient = NoCall
    /\ cscaled = NoCall

\* the handler throws e: the request ends with the error's status
Throw(r, e) ==
    /\ pc' = [pc EXCEPT ![r] = "done"]
    /\ resp' = [resp EXCEPT ![r] = [status |-> StatusOf(e), error |-> e,
                                    body |-> NoVideo]]

\* lines 12-20: the path parameter and the credential, up to
\* `await req.formData()`
Arrive(r) ==
    /\ pc[r] = "idle"
    /\ \E in \in Inputs :
        /\ input' = [input EXCEPT ![r] = in]
        /\ IF in.videoId = ""
           THEN /\ Throw(r, Err("BadRequestError", "Invalid video ID"))
                /\ UNCHANGED local
           ELSE IF ~validateJWT(in.token).ok
           THEN /\ Throw(r, validateJWT(in.token).error)
                /\ UNCHANGED local
           ELSE /\ pc' = [pc EXCEPT ![r] = "formData"]
                /\ local' = [local EXCEPT
                                ![r].userID = validateJWT(in.token).userID]
                /\ UNCHANGED resp
    /\ UNCHANGED <<db, s3, tmp, names, hist, proc, classifyVars,
                 thumbVars>>

\* lines 23-45 with the owner comparison (line 39) left out
videoChecks_NoOwnerCheck(video, videoMetaData, userID) ==
    IF ~video.isFile
    THEN Err("BadRequestError", "Video is not a file")
    ELSE IF video.size > MAX_UPLOAD_SIZE
    THEN Err("BadRequestError", "Video is too large")
    ELSE IF videoMetaData = NoVideo
    THEN Err("NotFoundError", "Video does not exist")
    ELSE IF video.type # VideoMp4
    THEN Err("BadRequestError", "Incorrect mime type")
    ELSE NoError

\* lines 23-45 with the size comparison (line 29) left out
videoChecks_NoSizeCheck(video, videoMetaData, userID) ==
    IF ~video.isFile
    THEN Err("BadRequestError", "Video is not a file")
    ELSE IF videoMetaData = NoVideo
    THEN Err("NotFoundError", "Video does not exist")
    ELSE IF videoMetaData.userID # userID
    THEN Err("UserForbiddenError", "Video does not belong to this user")
    ELSE IF video.type # VideoMp4
    THEN Err("BadRequestError", "Incorrect mime type")
    ELSE NoError

\* lines 23-45 with the record looked up and its owner compared before the
\* file is examined
videoChecks_RecordFirst(video, videoMetaData, userID) ==
    IF videoMetaData = NoVideo
    THEN Err("NotFoundError", "Video does not exist")
    ELSE IF videoMetaData.userID # userID
    THEN Err("UserForbiddenError", "Video does not belong to this user")
    ELSE IF ~video.isFile
    THEN Err("BadRequestError", "Video is not a file")
    ELSE IF video.size > MAX_UPLOAD_SIZE
    THEN Err("BadRequestError", "Video is too large")
    ELSE IF video.type # VideoMp4
    THEN Err("BadRequestError", "Incorrect mime type")
    ELSE NoError

\* lines 23-45: the checks on the file, its size, the record, its owner and
\* the declared type, in the order of the code; the error thrown, or NoError
videoChecks(video, videoMetaData, userID) ==
    IF ~video.isFile
    THEN Err("BadRequestError", "Video is not a file")
    ELSE IF video.size > MAX_UPLOAD_SIZE
    THEN Err("BadRequestError", "Video is too large")
    ELSE IF videoMetaData = NoVideo
    THEN Err("NotFoundError", "Video does not exist")
    ELSE IF videoMetaData.userID # userID
    THEN Err("UserForbiddenError", "Video does not belong to this user")
    ELSE IF video.type # VideoMp4
    THEN Err("BadRequestError", "Incorrect mime type")
    ELSE NoError

\* lines 21-47: the form data has arrived; the checks, up to
\* `await video.arrayBuffer()`
FormDataResolved(r) ==
    /\ pc[r] = "formData"
    /\ LET videoMetaData == getVideo(db, input[r].videoId)
           e == videoChecks(input[r].video, videoMetaData, local[r].userID)
       IN  IF e # NoError
           THEN /\ Throw(r, e)
                /\ UNCHANGED local
           ELSE /\ pc' = [pc EXCEPT ![r] = "arrayBuffer"]
                /\ local' = [local EXCEPT ![r].videoMetaData = videoMetaData]
                /\ UNCHANGED resp
    /\ UNCHANGED <<db, s3, tmp, names, input, hist, proc, classifyVars,
                 thumbVars>>

\* ArrayBufferResolved with Bun.write not awaited: the probe is spawned while
\* the write is still pending
ArrayBufferResolved_NoAwait(r) ==
    /\ pc[r] = "arrayBuffer"
    /\ \E n \in RandomNames \ names :
        LET fileExtension == input[r].video.type[2]
            filename == <<n, ".", fileExtension>>
        IN  /\ names' = names \cup {n}
            /\ local' = [local EXCEPT ![r].filename = filename]
            /\ hist' = [hist EXCEPT ![r] =
                   @ \o <<Ev("Bun.write", "begin", filepathOf(filename)),
                          Ev("ffprobe", "begin", filepathOf(filename))>>]
    /\ pc' = [pc EXCEPT ![r] = "stdout"]
    /\ proc' = [proc EXCEPT ![r] = Spawned]
    /\ UNCHANGED <<db, s3, tmp, input, resp, classifyVars,
                 thumbVars>>

\* ArrayBufferResolved with the staged file named after the video id, not
\* after randomBytes(32)
ArrayBufferResolved_NameFromVideoId(r) ==
    /\ pc[r] = "arrayBuffer"
    /\ LET fileExtension == input[r].video.type[2]
           filename == <<input[r].videoId, ".", fileExtension>>
       IN  /\ names' = names
           /\ local' = [local EXCEPT ![r].filename = filename]
           /\ hist' = [hist EXCEPT ![r] =
                  Append(@, Ev("Bun.write", "begin", filepathOf(filename)))]
    /\ pc' = [pc EXCEPT ![r] = "write"]
    /\ UNCHANGED <<db, s3, tmp, input, resp, proc, classifyVars,
                 thumbVars>>

\* lines 48-55: the bytes have arrived; a fresh file name, and the write of
\* the staged file begins
ArrayBufferResolved(r) ==
    /\ pc[r] = "arrayBuffer"
    /\ \E n \in RandomNames \ names :
        LET fileExtension == input[r].video.type[2]
            filename == <<n, ".", fileExtension>>
        IN  /\ names' = names \cup {n}
            /\ local' = [local EXCEPT ![r].filename = filename]
            /\ hist' = [hist EXCEPT ![r] =
                   Append(@, Ev("Bun.write", "begin", filepathOf(filename)))]
    /\ pc' = [pc EXCEPT ![r] = "write"]
    /\ UNCHANGED <<db, s3, tmp, input, resp, proc, classifyVars,
                 thumbVars>>

\* lines 55-93: the staged file is written; getVideoOrientation spawns
\* ffprobe on it and waits for its standard output
WriteResolved(r) ==
    /\ pc[r] = "write"
    /\ LET filepath == filepathOf(local[r].filename)
       IN  /\ tmp' = {f \in tmp : f.path # filepath}
                         \cup {[path |-> filepath, body |-> r]}
           /\ hist' = [hist EXCEPT ![r] =
                  @ \o <<Ev("Bun.write", "end", filepath),
                         Ev("ffprobe", "begin", filepath)>>]
    /\ pc' = [pc EXCEPT ![r] = "stdout"]
    /\ proc' = [proc EXCEPT ![r] = Spawned]
    /\ UNCHANGED <<db, s3, names, input, local, resp, classifyVars,
                 thumbVars>>

\* line 55: Bun.write rejects; nothing was staged
WriteRejected(r) ==
    /\ pc[r] = "write"
    /\ Throw(r, Err("Error", "write failed"))
    /\ hist' = [hist EXCEPT ![r] =
           Append(@, Ev("Bun.write", "fail", filepathOf(local[r].filename)))]
    /\ UNCHANGED <<db, s3, tmp, names, input, local, proc, classifyVars,
                 thumbVars>>

\* StdoutRead with standard error left unread: the exit status is awaited
\* as soon as standard output has been read
StdoutRead_SkipStderr(r) ==
    /\ pc[r] = "stdout"
    /\ \E t \in StdoutTexts : local' = [local EXCEPT ![r].stdoutText = t]
    /\ pc' = [pc EXCEPT ![r] = "exited"]
    /\ proc' = [proc EXCEPT ![r].stdout = "drained"]
    /\ UNCHANGED <<db, s3, tmp, names, input, resp, hist, classifyVars,
                 thumbVars>>

\* line 93: standard output has been read to its end
StdoutRead(r) ==
    /\ pc[r] = "stdout"
    /\ \E t \in StdoutTexts : local' = [local EXCEPT ![r].stdoutText = t]
    /\ pc' = [pc EXCEPT ![r] = "stderr"]
    /\ proc' = [proc EXCEPT ![r].stdout = "drained"]
    /\ UNCHANGED <<db, s3, tmp, names, input, resp, hist, classifyVars,
                 thumbVars>>

\* line 94: standard error has been read to its end
StderrRead(r) ==
    /\ pc[r] = "stderr"
    /\ \E t \in StderrTexts : local' = [local EXCEPT ![r].stderrText = t]
    /\ pc' = [pc EXCEPT ![r] = "exited"]
    /\ proc' = [proc EXCEPT ![r].stderr = "drained"]
    /\ UNCHANGED <<db, s3, tmp, names, input, resp, hist, classifyVars,
                 thumbVars>>

\* ProcExited with the record updated as soon as the write to the bucket
\* begins, not after it has completed
ProcExited_UpdateBeforeWrite(r) ==
    /\ pc[r] = "exited"
    /\ \E exited \in ExitCodes :
        LET res == getVideoOrientation(exited, local[r].stdoutText,
                                       local[r].stderrText)
            filepath == filepathOf(local[r].filename)
        IN  IF ~res.ok
            THEN /\ Throw(r, res.error)
                 /\ hist' = [hist EXCEPT ![r] =
                        Append(@, Ev("ffprobe", "fail", filepath))]
                 /\ local' = [local EXCEPT ![r].exited = exited]
                 /\ UNCHANGED db
            ELSE /\ pc' = [pc EXCEPT ![r] = "s3write"]
                 /\ local' = [local EXCEPT ![r].exited = exited,
                                           ![r].videoOrientation = res.value]
                 /\ hist' = [hist EXCEPT ![r] =
                        @ \o <<Ev("ffprobe", "end", filepath),
                               Ev("s3.write", "begin", filepath)>>]
                 /\ db' = updateVideo(db,
                        [local[r].videoMetaData EXCEPT
                            !.videoURL = videoURLOf(res.value, local[r].filename)])
                 /\ UNCHANGED resp
    /\ proc' = [proc EXCEPT ![r].exitRead = TRUE]
    /\ UNCHANGED <<s3, tmp, names, input, classifyVars,
                 thumbVars>>

\* lines 96-118 and 57-61: the process has exited; the probe throws or
\* returns the orientation, and the write to the bucket begins
ProcExited(r) ==
    /\ pc[r] = "exited"
    /\ \E exited \in ExitCodes :
        LET res == getVideoOrientation(exited, local[r].stdoutText,
                                       local[r].stderrText)
            filepath == filepathOf(local[r].filename)
        IN  IF ~res.ok
            THEN /\ Throw(r, res.error)
                 /\ hist' = [hist EXCEPT ![r] =
                        Append(@, Ev("ffprobe", "fail", filepath))]
                 /\ local' = [local EXCEPT ![r].exited = exited]
            ELSE /\ pc' = [pc EXCEPT ![r] = "s3write"]
                 /\ local' = [local EXCEPT ![r].exited = exited,
                                           ![r].videoOrientation = res.value]
                 /\ hist' = [hist EXCEPT ![r] =
                        @ \o <<Ev("ffprobe", "end", filepath),
                               Ev("s3.write", "begin", filepath)>>]
                 /\ UNCHANGED resp
    /\ proc' = [proc EXCEPT ![r].exitRead = TRUE]
    /\ UNCHANGED <<db, s3, tmp, names, input, classifyVars,
                 thumbVars>>

\* S3WriteResolved with the record updated only while it has no videoURL
\* yet: the first request to update wins
S3WriteResolved_FirstWriterWins(r) ==
    /\ pc[r] = "s3write"
    /\ \E f \in tmp :
        /\ f.path = filepathOf(local[r].filename)
        /\ LET key == keyOf(local[r].videoOrientation, local[r].filename)
               newVideo == [local[r].videoMetaData EXCEPT
                               !.videoURL = videoURLOf(local[r].videoOrientation,
                                                       local[r].filename)]
           IN  /\ s3' = {o \in s3 : o.key # key}
                            \cup {[key |-> key, body |-> f.body,
                                   type |-> input[r].video.type]}
               /\ \E committed \in BOOLEAN :
                    IF committed
                    THEN /\ db' = IF getVideo(db, newVideo.id).videoURL = NoURL
                                  THEN updateVideo(db, newVideo)
                                  ELSE db
                         /\ local' = [local EXCEPT ![r].newVideo = newVideo]
                         /\ pc' = [pc EXCEPT ![r] = "delete"]
                         /\ hist' = [hist EXCEPT ![r] =
                                @ \o <<Ev("s3.write", "end", key),
                                       Ev("updateVideo", "end", newVideo.videoURL),
                                       Ev("delete", "begin", f.path)>>]
                         /\ UNCHANGED resp
                    ELSE /\ Throw(r, Err("Error", "update failed"))
                         /\ hist' = [hist EXCEPT ![r] =
                                @ \o <<Ev("s3.write", "end", key),
                                       Ev("updateVideo", "fail", newVideo.videoURL)>>]
                         /\ UNCHANGED <<db, local>>
    /\ UNCHANGED <<tmp, names, input, proc, classifyVars,
                 thumbVars>>

\* lines 59-70: the object is in the bucket; the record is updated with the
\* new videoURL (or the update throws), and the deletion of the staged file
\* begins
S3WriteResolved(r) ==
    /\ pc[r] = "s3write"
    /\ \E f \in tmp :
        /\ f.path = filepathOf(local[r].filename)
        /\ LET key == keyOf(local[r].videoOrientation, local[r].filename)
               newVideo == [local[r].videoMetaData EXCEPT
                               !.videoURL = videoURLOf(local[r].videoOrientation,
                                                       local[r].filename)]
           IN  /\ s3' = {o \in s3 : o.key # key}
                            \cup {[key |-> key, body |-> f.body,
                                   type |-> input[r].video.type]}
               /\ \E committed \in BOOLEAN :
                    IF committed
                    THEN /\ db' = updateVideo(db, newVideo)
                         /\ local' = [local EXCEPT ![r].newVideo = newVideo]
                         /\ pc' = [pc EXCEPT ![r] = "delete"]
                         /\ hist' = [hist EXCEPT ![r] =
                                @ \o <<Ev("s3.write", "end", key),
                                       Ev("updateVideo", "end", newVideo.videoURL),
                                       Ev("delete", "begin", f.path)>>]
                         /\ UNCHANGED resp
                    ELSE /\ Throw(r, Err("Error", "update failed"))
                         /\ hist' = [hist EXCEPT ![r] =
                                @ \o <<Ev("s3.write", "end", key),
                                       Ev("updateVideo", "fail", newVideo.videoURL)>>]
                         /\ UNCHANGED <<db, local>>
    /\ UNCHANGED <<tmp, names, input, proc, classifyVars,
                 thumbVars>>

\* lines 59-61: the write to the bucket rejects
S3WriteRejected(r) ==
    /\ pc[r] = "s3write"
    /\ Throw(r, Err("Error", "upload failed"))
    /\ hist' = [hist EXCEPT ![r] =
           Append(@, Ev("s3.write", "fail", filepathOf(local[r].filename)))]
    /\ UNCHANGED <<db, s3, tmp, names, input, local, proc, classifyVars,
                 thumbVars>>

\* lines 70-72: the staged file is deleted; the handler responds
DeleteResolved(r) ==
    /\ pc[r] = "delete"
    /\ LET filepath == filepathOf(local[r].filename)
       IN  /\ \E f \in tmp : f.path = filepath
           /\ tmp' = {f \in tmp : f.path # filepath}
           /\ hist' = [hist EXCEPT ![r] =
                  Append(@, Ev("delete", "end", filepath))]
    /\ pc' = [pc EXCEPT ![r] = "done"]
    /\ resp' = [resp EXCEPT ![r] = [status |-> 200, error |-> NoError,
                                    body |-> local[r].newVideo]]
    /\ UNCHANGED <<db, s3, names, input, local, proc, classifyVars,
                 thumbVars>>

\* line 70: the deletion rejects; the file stays
DeleteRejected(r) ==
    /\ pc[r] = "delete"
    /\ Throw(r, Err("Error", "unlink failed"))
    /\ hist' = [hist EXCEPT ![r] =
           Append(@, Ev("delete", "fail", filepathOf(local[r].filename)))]
    /\ UNCHANGED <<db, s3, tmp, names, input, local, proc, classifyVars,
                 thumbVars>>

Next ==
    \E r \in Reqs :
        \/ Arrive(r)
        \/ FormDataResolved(r)
        \/ ArrayBufferResolved(r)
        \/ WriteResolved(r)
        \/ WriteRejected(r)
        \/ StdoutRead(r)
        \/ StderrRead(r)
        \/ ProcExited(r)
        \/ S3WriteResolved(r)
        \/ S3WriteRejected(r)
        \/ DeleteResolved(r)
        \/ DeleteRejected(r)

Spec == Init /\ [][Next]_vars

InitClassify ==
    /\ db = InitialVideos
    /\ s3 = {}
    /\ tmp = {}
    /\ names = {}
    /\ pc = [r \in Reqs |-> "idle"]
    /\ input = [r \in Reqs |-> NoInput]
    /\ local = [r \in Reqs |-> NoLocal]
    /\ resp = [r \in Reqs |-> NoResp]
    /\ hist = [r \in Reqs |-> <<>>]
    /\ proc = [r \in Reqs |-> NoProc]
    /\ ThumbIdle
    /\ cdim \in Dims
    /\ cscale \in 1..MaxScale
    /\ corient = NoCall
    /\ cscaled = NoCall

NextClassify == Classify \/ ClassifyScaled

SpecClassify == InitClassify /\ [][NextClassify]_vars

(***************************************************************************)
(* handlerUploadThumbnail, thumbnails kept in memory (lines 174-213)       *)
(***************************************************************************)

\* what a thumbnail handler leaves alone of the video uploads
videoReqVars == <<s3, tmp, names, pc, input, local, resp, hist, proc>>

\* the handler throws e: the request ends with the error's status
ThumbThrow(t, e) ==
    /\ tpc' = [tpc EXCEPT ![t] = "done"]
    /\ tresp' = [tresp EXCEPT ![t] = [status |-> StatusOf(e), error |-> e,
                                      body |-> NoVideo]]

\* lines 175-183: the path parameter and the credential, up to
\* `await req.formData()`
ThumbArrive(t) ==
    /\ tpc[t] = "idle"
    /\ \E in \in ThumbInputs :
        /\ tinput' = [tinput EXCEPT ![t] = in]
        /\ IF in.videoId = ""
           THEN /\ ThumbThrow(t, Err("BadRequestError", "Invalid video ID"))
                /\ UNCHANGED tlocal
           ELSE IF ~validateJWT(in.token).ok
           THEN /\ ThumbThrow(t, validateJWT(in.token).error)
                /\ UNCHANGED tlocal
           ELSE /\ tpc' = [tpc EXCEPT ![t] = "formData"]
                /\ tlocal' = [tlocal EXCEPT
                                 ![t].userID = validateJWT(in.token).userID]
                /\ UNCHANGED tresp
    /\ UNCHANGED <<db, videoReqVars, videoThumbnails, assets, pendingWrites,
                 classifyVars>>

\* lines 184-198: the form data has arrived; the checks on the file and its
\* size, up to `await thumbnail.arrayBuffer()`
ThumbFormDataResolved(t) ==
    /\ tpc[t] = "formData"
    /\ LET thumbnail == tinput[t].thumbnail
       IN  IF ~thumbnail.isFile
           THEN /\ ThumbThrow(t, Err("BadRequestError", "Thumbnail is not a file"))
                /\ UNCHANGED tlocal
           ELSE IF thumbnail.size > MAX_UPLOAD_SIZE_THUMBNAIL
           THEN /\ ThumbThrow(t, Err("BadRequestError", "Thumbnail is too large"))
                /\ UNCHANGED tlocal
           ELSE /\ tpc' = [tpc EXCEPT ![t] = "arrayBuffer"]
                /\ tlocal' = [tlocal EXCEPT ![t].mediaType = thumbnail.type]
                /\ UNCHANGED tresp
    /\ UNCHANGED <<db, videoReqVars, videoThumbnails, assets, pendingWrites,
                 tinput, classifyVars>>

\* ThumbArrayBufferResolved with the map entry set before the owner of the
\* record is compared
ThumbArrayBufferResolved_SetBeforeCheck(t) ==
    /\ tpc[t] = "arrayBuffer"
    /\ LET videoId == tinput[t].videoId
           videoMetaData == getVideo(db, videoId)
           newVideo == [videoMetaData EXCEPT
                           !.thumbnailURL = thumbnailURLOf(videoMetaData.id)]
       IN  /\ videoThumbnails' =
                  MapSet(videoThumbnails, videoId,
                         [data |-> t, mediaType |-> tlocal[t].mediaType])
           /\ IF videoMetaData.userID # tlocal[t].userID
              THEN /\ ThumbThrow(t, Err("UserForbiddenError",
                                        "Video does not belong to this user"))
                   /\ UNCHANGED <<db, tlocal>>
              ELSE /\ tlocal' = [tlocal EXCEPT
                                    ![t].videoMetaData = videoMetaData,
                                    ![t].newVideo = newVideo]
                   /\ \E committed \in BOOLEAN :
                        IF committed
                        THEN /\ db' = updateVideo(db, newVideo)
                             /\ tpc' = [tpc EXCEPT ![t] = "done"]
                             /\ tresp' = [tresp EXCEPT ![t] =
                                    [status |-> 200, error |-> NoError,
                                     body |-> newVideo]]
                        ELSE /\ ThumbThrow(t, Err("Error", "update failed"))
                             /\ UNCHANGED db
    /\ UNCHANGED <<videoReqVars, assets, pendingWrites, tinput, classifyVars>>

\* lines 198-212: the bytes have arrived; the record is read and its owner
\* compared, the thumbnail is put in the map, the record is updated with the
\* thumbnailURL (or the update throws), and the handler responds
ThumbArrayBufferResolved(t) ==
    /\ tpc[t] = "arrayBuffer"
    /\ LET videoId == tinput[t].videoId
           videoMetaData == getVideo(db, videoId)
           newVideo == [videoMetaData EXCEPT
                           !.thumbnailURL = thumbnailURLOf(videoMetaData.id)]
       IN  IF videoMetaData.userID # tlocal[t].userID
           THEN /\ ThumbThrow(t, Err("UserForbiddenError",
                                     "Video does not belong to this user"))
                /\ UNCHANGED <<db, videoThumbnails, tlocal>>
           ELSE /\ videoThumbnails' =
                       MapSet(videoThumbnails, videoId,
                              [data |-> t, mediaType |-> tlocal[t].mediaType])
                /\ tlocal' = [tlocal EXCEPT
                                 ![t].videoMetaData = videoMetaData,
                                 ![t].newVideo = newVideo]
                /\ \E committed \in BOOLEAN :
                     IF committed
                     THEN /\ db' = updateVideo(db, newVideo)
                          /\ tpc' = [tpc EXCEPT ![t] = "done"]
                          /\ tresp' = [tresp EXCEPT ![t] =
                                 [status |-> 200, error |-> NoError,
                                  body |-> newVideo]]
                     ELSE /\ ThumbThrow(t, Err("Error", "update failed"))
                          /\ UNCHANGED db
    /\ UNCHANGED <<videoReqVars, assets, pendingWrites, tinput, classifyVars>>

NextThumbnail ==
    \E t \in ThumbReqs :
        \/ ThumbArrive(t)
        \/ ThumbFormDataResolved(t)
        \/ ThumbArrayBufferResolved(t)

SpecThumbnail == Init /\ [][NextThumbnail]_vars

\* one video upload and one thumbnail upload in flight together
MixedReqs == {"r1"}
MixedThumbReqs == {"t1"}

NextMixed ==
    \/ \E r \in MixedReqs :
          \/ Arrive(r)
          \/ FormDataResolved(r)
          \/ ArrayBufferResolved(r)
          \/ WriteResolved(r)
          \/ WriteRejected(r)
          \/ StdoutRead(r)
          \/ StderrRead(r)
          \/ ProcExited(r)
          \/ S3WriteResolved(r)
          \/ S3WriteRejected(r)
          \/ DeleteResolved(r)
          \/ DeleteRejected(r)
    \/ \E t \in MixedThumbReqs :
          \/ ThumbArrive(t)
          \/ ThumbFormDataResolved(t)
          \/ ThumbArrayBufferResolved(t)

SpecMixed == Init /\ [][NextMixed]_vars

(***************************************************************************)
(* handlerUploadThumbnail, thumbnails as asset files (lines 271-322)       *)
(***************************************************************************)

\* lines 272-280: the path parameter and the credential, up to
\* `await req.formData()`
AssetArrive(t) ==
    /\ tpc[t] = "idle"
    /\ \E in \in ThumbInputs :
        /\ tinput' = [tinput EXCEPT ![t] = in]
        /\ IF in.videoId = ""
           THEN /\ ThumbThrow(t, Err("BadRequestError", "Invalid video ID"))
                /\ UNCHANGED tlocal
           ELSE IF ~validateJWT(in.token).ok
           THEN /\ ThumbThrow(t, validateJWT(in.token).error)
                /\ UNCHANGED tlocal
           ELSE /\ tpc' = [tpc EXCEPT ![t] = "formData"]
                /\ tlocal' = [tlocal EXCEPT
                                 ![t].userID = validateJWT(in.token).userID]
                /\ UNCHANGED tresp
    /\ UNCHANGED <<db, videoReqVars, videoThumbnails, assets, pendingWrites,
                 classifyVars>>

\* lines 281-306: the form data has arrived; the checks on the file, its
\* type and its size, the record and its owner, up to
\* `await thumbnail.arrayBuffer()`
AssetFormDataResolved(t) ==
    /\ tpc[t] = "formData"
    /\ LET thumbnail == tinput[t].thumbnail
           videoMetaData == getVideo(db, tinput[t].videoId)
       IN  IF ~thumbnail.isFile
           THEN /\ ThumbThrow(t, Err("BadRequestError", "Thumbnail is not a file"))
                /\ UNCHANGED tlocal
           ELSE IF thumbnail.type \notin allowedMimeTypes
           THEN /\ ThumbThrow(t, Err("BadRequestError", "Incorrect mime type"))
                /\ UNCHANGED tlocal
           ELSE IF thumbnail.size > MAX_UPLOAD_SIZE_THUMBNAIL
           THEN /\ ThumbThrow(t, Err("BadRequestError", "Thumbnail is too large"))
                /\ UNCHANGED tlocal
           ELSE IF videoMetaData.userID # tlocal[t].userID
           THEN /\ ThumbThrow(t, Err("UserForbiddenError",
                                     "Video does not belong to this user"))
                /\ UNCHANGED tlocal
           ELSE /\ tpc' = [tpc EXCEPT ![t] = "arrayBuffer"]
                /\ tlocal' = [tlocal EXCEPT ![t].videoMetaData = videoMetaData]
                /\ UNCHANGED tresp
    /\ UNCHANGED <<db, videoReqVars, videoThumbnails, assets, pendingWrites,
                 tinput, classifyVars>>

\* lines 306-321: the bytes have arrived; Bun.write of the asset file is
\* started and not awaited (the runtime may finish the write at once or
\* leave it pending), the record is updated with the thumbnailURL (or the
\* update throws), and the handler responds
AssetArrayBufferResolved(t) ==
    /\ tpc[t] = "arrayBuffer"
    /\ LET videoMetaData == tlocal[t].videoMetaData
           mediaType == tinput[t].thumbnail.type
           filename == assetFilenameOf(videoMetaData.id, mediaType)
           filepath == assetFilepathOf(filename)
           newVideo == [videoMetaData EXCEPT
                           !.thumbnailURL = assetURLOf(filename)]
       IN  /\ \E atOnce \in BOOLEAN :
                IF atOnce
                THEN /\ assets' = {f \in assets : f.path # filepath}
                                      \cup {[path |-> filepath, body |-> t]}
                     /\ UNCHANGED pendingWrites
                ELSE /\ pendingWrites' =
                            pendingWrites \cup {[path |-> filepath, body |-> t]}
                     /\ UNCHANGED assets
           /\ tlocal' = [tlocal EXCEPT ![t].mediaType = mediaType,
                                       ![t].filename = filename,
                                       ![t].newVideo = newVideo]
           /\ \E committed \in BOOLEAN :
                IF committed
                THEN /\ db' = updateVideo(db, newVideo)
                     /\ tpc' = [tpc EXCEPT ![t] = "done"]
                     /\ tresp' = [tresp EXCEPT ![t] =
                            [status |-> 200, error |-> NoError,
                             body |-> newVideo]]
                ELSE /\ ThumbThrow(t, Err("Error", "update failed"))
                     /\ UNCHANGED db
    /\ UNCHANGED <<videoReqVars, videoThumbnails, tinput, classifyVars>>

\* line 313, later: a write nobody awaits completes; the file is on disk
AssetWriteResolved ==
    /\ \E w \in pendingWrites :
        /\ pendingWrites' = pendingWrites \ {w}
        /\ assets' = {f \in assets : f.path # w.path} \cup {w}
    /\ UNCHANGED <<db, videoReqVars, videoThumbnails, tpc, tinput, tlocal,
                 tresp, classifyVars>>

\* line 313, later: a write nobody awaits rejects; nothing handles the
\* rejection and no file is written
AssetWriteRejected ==
    /\ \E w \in pendingWrites : pendingWrites' = pendingWrites \ {w}
    /\ UNCHANGED <<db, videoReqVars, videoThumbnails, assets, tpc, tinput,
                 tlocal, tresp, classifyVars>>

NextAsset ==
    \/ \E t \in ThumbReqs :
          \/ AssetArrive(t)
          \/ AssetFormDataResolved(t)
          \/ AssetArrayBufferResolved(t)
    \/ AssetWriteResolved
    \/ AssetWriteRejected

SpecAsset == Init /\ [][NextAsset]_vars

(***************************************************************************)
(* Properties                                                              *)
(***************************************************************************)

\* request r has an entry (op, at) in its history
HasEv(r, op, at) ==
    \E i \in 1..Len(hist[r]) : hist[r][i].op = op /\ hist[r][i].at = at

CountEv(r, op, at) ==
    Cardinality({i \in 1..Len(hist[r]) :
                    hist[r][i].op = op /\ hist[r][i].at = at})

\* the staged file of request r is present in /tmp
StagedFilePresent(r) ==
    \E f \in tmp : f.path = filepathOf(local[r].filename)

\* the videoURLs request r could write: those built on its file name
URLsOf(r) ==
    {videoURLOf(o, local[r].filename) : o \in VideoOrientation}

\* C1: every request that staged a file has, once it has ended, deleted that
\* file exactly once, whatever the exit path (success, probe failure,
\* storage-write failure, record-update failure); no ended request leaves its
\* staged file behind.
C1_StagedFileDeletedOnEveryExit ==
    \A r \in Reqs :
        (pc[r] = "done" /\ HasEv(r, "Bun.write", "end")) =>
            /\ CountEv(r, "delete", "end") = 1
            /\ ~StagedFilePresent(r)

\* C2: a videoURL held by a record names an object whose write to the bucket
\* has completed; a request updates the record only after its own write has
\* completed, and a request that failed at the probe or at the write to the
\* bucket has left every record's videoURL as it was.
C2_VideoURLOnlyAfterStoragePlacement ==
    /\ \A v \in DOMAIN db :
          db[v].videoURL # NoURL =>
              \E o \in s3 :
                  db[v].videoURL =
                      <<"https://", cfg.s3Bucket, ".s3.", cfg.s3Region,
                        ".amazonaws.com/">> \o o.key
    /\ \A r \in Reqs :
          /\ HasEv(r, "updateVideo", "end") =>
                \E i, j \in 1..Len(hist[r]) :
                    /\ i < j
                    /\ hist[r][i].op = "s3.write" /\ hist[r][i].at = "end"
                    /\ hist[r][j].op = "updateVideo"
          /\ (HasEv(r, "ffprobe", "fail") \/ HasEv(r, "s3.write", "fail")) =>
                /\ pc[r] = "done"
                /\ resp[r].status # 200
                /\ ~HasEv(r, "updateVideo", "end")
                /\ \A v \in DOMAIN db : db[v].videoURL \notin URLsOf(r)

\* C2 witness: one request has updated the record after its write to the
\* bucket, and another has failed at the probe or at the write
C2_Witness ==
    \E r, q \in Reqs :
        /\ r # q
        /\ db["v1"].videoURL \in URLsOf(r)
        /\ HasEv(q, "ffprobe", "fail") \/ HasEv(q, "s3.write", "fail")

\* request r was made by an authenticated user who does not own the record
\* it names
NonOwner(r) ==
    /\ pc[r] # "idle"
    /\ input[r].videoId \in DOMAIN db
    /\ validateJWT(input[r].token).ok
    /\ db[input[r].videoId].userID # validateJWT(input[r].token).userID

\* C3: an upload by an authenticated user who does not own the record begins
\* no I/O at all (no staged file, no write to the bucket, no record update),
\* never succeeds, and, when its file field is present and within the size
\* ceiling, fails with UserForbiddenError (403).
C3_NonOwnerForbiddenNoEffects ==
    \A r \in Reqs :
        NonOwner(r) =>
            /\ hist[r] = <<>>
            /\ \A f \in tmp : f.body # r
            /\ \A o \in s3 : o.body # r
            /\ pc[r] \in {"formData", "done"}
            /\ pc[r] = "done" =>
                  /\ resp[r].status # 200
                  /\ (input[r].video.isFile
                        /\ input[r].video.size <= MAX_UPLOAD_SIZE) =>
                        /\ resp[r].error.name = "UserForbiddenError"
                        /\ resp[r].status = 403

\* C3 witness: a non-owner's upload of an acceptable file has been refused
C3_Witness ==
    \E r \in Reqs :
        /\ NonOwner(r)
        /\ pc[r] = "done"
        /\ input[r].video.isFile
        /\ input[r].video.type = VideoMp4
        /\ input[r].video.size <= MAX_UPLOAD_SIZE
        /\ resp[r].error.name = "UserForbiddenError"

\* request r passed the videoId, credential and file checks with a file
\* larger than the ceiling
Oversize(r) ==
    /\ pc[r] # "idle"
    /\ input[r].videoId # ""
    /\ validateJWT(input[r].token).ok
    /\ input[r].video.isFile
    /\ input[r].video.size > MAX_UPLOAD_SIZE

\* C4 as stated: an upload whose file exceeds 1 GiB fails with
\* PayloadTooLarge (status 413) before any staging: no staged file, no
\* probe, no write to the bucket, no record update.
C4_OversizeFailsPayloadTooLarge ==
    \A r \in Reqs :
        Oversize(r) =>
            /\ hist[r] = <<>>
            /\ pc[r] = "done" => resp[r].status = 413

\* C4 amended: an upload whose file exceeds 1 GiB fails with
\* BadRequestError "Video is too large" (status 400) before any staging: no
\* staged file, no probe, no write to the bucket, no record update.
C4_OversizeRejectedBeforeStaging ==
    \A r \in Reqs :
        Oversize(r) =>
            /\ hist[r] = <<>>
            /\ local[r].filename = <<>>
            /\ \A f \in tmp : f.body # r
            /\ \A o \in s3 : o.body # r
            /\ pc[r] \in {"formData", "done"}
            /\ pc[r] = "done" =>
                  /\ resp[r].error = Err("BadRequestError", "Video is too large")
                  /\ resp[r].status = 400

\* C4 witness: the owner's upload of an mp4 one byte over the ceiling has
\* been refused
C4_Witness ==
    \E r \in Reqs :
        /\ Oversize(r)
        /\ pc[r] = "done"
        /\ input[r].video.size = MAX_UPLOAD_SIZE + 1
        /\ input[r].video.type = VideoMp4
        /\ ~NonOwner(r)
        /\ input[r].videoId \in DOMAIN db
        /\ resp[r].error.name = "BadRequestError"

\* the seven preconditions of an upload, as the specification numbers them
GateOk(k, in) ==
    CASE k = 1 -> in.videoId # ""
      [] k = 2 -> validateJWT(in.token).ok
      [] k = 3 -> in.video.isFile
      [] k = 4 -> in.video.size <= MAX_UPLOAD_SIZE
      [] k = 5 -> in.videoId \in DOMAIN db
      [] k = 6 -> /\ in.videoId \in DOMAIN db
                  /\ db[in.videoId].userID = validateJWT(in.token).userID
      [] k = 7 -> in.video.type = VideoMp4

FailingGates(in) == {k \in 1..7 : ~GateOk(k, in)}

\* the earliest failing gate, 0 when every gate passes
FirstFailingGate(in) ==
    IF FailingGates(in) = {}
    THEN 0
    ELSE CHOOSE k \in FailingGates(in) : \A j \in FailingGates(in) : k <= j

\* the status the specification gives each gate's error kind: InvalidRequest
\* 400, Unauthenticated 401, PayloadTooLarge 413, NotFound 404, Forbidden
\* 403, UnsupportedMediaType 415
SpecStatusOfGate == <<400, 401, 400, 413, 404, 403, 415>>

\* the error the code throws at each gate
CodeErrorOfGate(k, in) ==
    CASE k = 1 -> Err("BadRequestError", "Invalid video ID")
      [] k = 2 -> validateJWT(in.token).error
      [] k = 3 -> Err("BadRequestError", "Video is not a file")
      [] k = 4 -> Err("BadRequestError", "Video is too large")
      [] k = 5 -> Err("NotFoundError", "Video does not exist")
      [] k = 6 -> Err("UserForbiddenError", "Video does not belong to this user")
      [] k = 7 -> Err("BadRequestError", "Incorrect mime type")

CodeStatusOfGate == <<400, 401, 400, 400, 404, 403, 400>>

\* C5 as stated: the seven preconditions are checked in the fixed order, a
\* request failing several of them fails with the error of the earliest, and
\* each gate has its own error kind with the statuses 400, 401, 400, 413,
\* 404, 403, 415.
C5_EarliestGateDistinctKinds ==
    \A r \in Reqs :
        (pc[r] = "done" /\ FirstFailingGate(input[r]) # 0) =>
            resp[r].status = SpecStatusOfGate[FirstFailingGate(input[r])]

\* C5 amended: the seven preconditions are checked in the fixed order and a
\* request failing several of them fails with the error of the earliest;
\* the missing videoId, the missing file, the oversize file and the wrong
\* type all throw BadRequestError (400) and differ only in the message, the
\* credential gate throws the auth layer's error (401), the missing record
\* NotFoundError (404), the foreign record UserForbiddenError (403); a request
\* passing all seven is not refused with any of these.
C5_EarliestGateErrorOfCode ==
    \A r \in Reqs :
        pc[r] # "idle" =>
            LET g == FirstFailingGate(input[r])
            IN  /\ g \in {1, 2} => pc[r] = "done"
                /\ g \in 3..7 => pc[r] \in {"formData", "done"}
                /\ (g # 0 /\ pc[r] = "done") =>
                      /\ resp[r].error = CodeErrorOfGate(g, input[r])
                      /\ resp[r].status = CodeStatusOfGate[g]
                /\ (g = 0 /\ pc[r] = "done") =>
                      resp[r].status \in {200, 500}

\* C5 witness: a request failing the size, owner and type gates together has
\* been refused with the size gate's error
C5_Witness ==
    \E r \in Reqs :
        /\ pc[r] = "done"
        /\ FailingGates(input[r]) = {4, 6, 7}
        /\ resp[r].error.message = "Video is too large"

\* a videoURL in key form, `${orientation}/${name}.${extension}`
IsKeyForm(u) ==
    /\ Len(u) = 5
    /\ u[1] \in VideoOrientation
    /\ u[2] = "/"

\* a videoURL in public form, the bucket's host followed by a key
IsPublicURL(u) ==
    /\ Len(u) = 10
    /\ SubSeq(u, 1, 5) = <<"https://", cfg.s3Bucket, ".s3.", cfg.s3Region,
                           ".amazonaws.com/">>
    /\ IsKeyForm(SubSeq(u, 6, 10))

\* the videoURL request r handed to updateVideo
PersistedBy(r) ==
    hist[r][CHOOSE i \in 1..Len(hist[r]) :
                hist[r][i].op = "updateVideo" /\ hist[r][i].at = "end"].arg

\* C6 as stated: after a successful upload the videoURL persisted is the
\* storage key, the videoURL returned is the resolved display form, and the
\* two strings differ.
C6_PersistedKeyResponseResolved ==
    \A r \in Reqs :
        (pc[r] = "done" /\ resp[r].status = 200) =>
            /\ IsKeyForm(PersistedBy(r))
            /\ resp[r].body.videoURL # PersistedBy(r)

\* C6 amended: after a successful upload the videoURL persisted is the
\* public URL https://{bucket}.s3.{region}.amazonaws.com/{key} of the object
\* the request stored, never the bare key and never a signed form, and the
\* response returns the record as persisted, with that same string.
C6_PersistedPublicURLReturned ==
    /\ \A v \in DOMAIN db :
          db[v].videoURL # NoURL => IsPublicURL(db[v].videoURL)
    /\ \A r \in Reqs :
          (pc[r] = "done" /\ resp[r].status = 200) =>
              /\ resp[r].body.videoURL = PersistedBy(r)
              /\ IsPublicURL(PersistedBy(r))
              /\ \E o \in s3 :
                    /\ o.body = r
                    /\ o.key = SubSeq(PersistedBy(r), 6, 10)
              /\ resp[r].body = [local[r].videoMetaData EXCEPT
                                    !.videoURL = PersistedBy(r)]

\* C6 witness: a request has answered 200 and the record holds the videoURL
\* it returned
C6_Witness ==
    \E r \in Reqs :
        /\ pc[r] = "done"
        /\ resp[r].status = 200
        /\ db["v1"].videoURL = resp[r].body.videoURL

\* the I/O of a complete upload, in order
PipelineEvents ==
    <<Ev("Bun.write", "begin", <<>>), Ev("Bun.write", "end", <<>>),
      Ev("ffprobe", "begin", <<>>), Ev("ffprobe", "end", <<>>),
      Ev("s3.write", "begin", <<>>), Ev("s3.write", "end", <<>>),
      Ev("updateVideo", "end", <<>>),
      Ev("delete", "begin", <<>>), Ev("delete", "end", <<>>)>>

\* C7 as stated: the steps run in the order stage, probe, remux, upload,
\* record update; the object written to the bucket is the remuxed output, a
\* second staged path, never the raw staged input; both staged files are
\* deleted at the end.
C7_RemuxedOutputUploaded ==
    \A r \in Reqs :
        /\ HasEv(r, "s3.write", "begin") =>
              \E i, j \in 1..Len(hist[r]) :
                  /\ i < j
                  /\ hist[r][i].op = "remux" /\ hist[r][i].at = "end"
                  /\ hist[r][j].op = "s3.write" /\ hist[r][j].at = "begin"
                  /\ hist[r][j].arg # filepathOf(local[r].filename)
        /\ (pc[r] = "done" /\ resp[r].status = 200) =>
              CountEv(r, "delete", "end") = 2

\* C7 amended: the steps run strictly in the order stage, probe, upload to
\* the bucket, record update, deletion, each begun only after the one before
\* it has ended, and a step that fails ends the request; there is no remux
\* step: the object written to the bucket is the raw staged input, the only
\* staged file, and a request that answers 200 has deleted it as its last
\* step.
C7_StageProbeUploadUpdateDelete ==
    \A r \in Reqs :
        LET h == hist[r]
        IN  /\ Len(h) <= Len(PipelineEvents)
            /\ \A i \in 1..Len(h) :
                  /\ h[i].op = PipelineEvents[i].op
                  /\ \/ h[i].at = PipelineEvents[i].at
                     \/ /\ h[i].at = "fail"
                        /\ i = Len(h)
                        /\ pc[r] = "done"
                        /\ resp[r].status = 500
                  /\ h[i].arg =
                        CASE h[i].op = "updateVideo" ->
                                 videoURLOf(local[r].videoOrientation,
                                            local[r].filename)
                          [] h[i].op = "s3.write" /\ h[i].at = "end" ->
                                 keyOf(local[r].videoOrientation,
                                       local[r].filename)
                          [] OTHER -> filepathOf(local[r].filename)
            /\ HasEv(r, "s3.write", "end") =>
                  [key |-> keyOf(local[r].videoOrientation, local[r].filename),
                   body |-> r, type |-> VideoMp4] \in s3
            /\ (pc[r] = "done" /\ resp[r].status = 200) =>
                  /\ Len(h) = Len(PipelineEvents)
                  /\ ~StagedFilePresent(r)

\* C7 witness: a request has run the whole pipeline and answered 200
C7_Witness ==
    \E r \in Reqs :
        /\ pc[r] = "done"
        /\ resp[r].status = 200
        /\ Len(hist[r]) = Len(PipelineEvents)
        /\ \E o \in s3 : o.body = r

\* |x|
Abs(x) == IF x < 0 THEN -x ELSE x

\* |width/height - 16/9| <= 1/20 and |width/height - 9/16| <= 1/20 in exact
\* rational arithmetic, cleared of denominators
ExactLandscape(width, height) == 20 * Abs(9 * width - 16 * height) <= 9 * height
ExactPortrait(width, height) == 5 * Abs(16 * width - 9 * height) <= 4 * height

\* C8: for positive integers width and height the classifier returns
\* landscape if |width/height - 16/9| <= 0.05, portrait if
\* |width/height - 9/16| <= 0.05, and other in every remaining case; the two
\* conditions never hold together.
C8_ClassifiesByRatioWithinTolerance ==
    corient # NoCall =>
        /\ ~(ExactLandscape(cdim[1], cdim[2]) /\ ExactPortrait(cdim[1], cdim[2]))
        /\ corient = IF ExactLandscape(cdim[1], cdim[2]) THEN "landscape"
                     ELSE IF ExactPortrait(cdim[1], cdim[2]) THEN "portrait"
                     ELSE "other"

\* C9: the classification is invariant under exact scaling: the result for
\* (width, height) equals the result for (k * width, k * height).
C9_ScaleInvariant ==
    (corient # NoCall /\ cscaled # NoCall) => corient = cscaled

\* C9 witness: 311 x 180, whose ratio lies on the edge of the landscape
\* tolerance, and a proper multiple of it have both been classified landscape
C9_Witness ==
    /\ cdim = <<311, 180>>
    /\ cscale > 1
    /\ corient = "landscape"
    /\ cscaled = "landscape"

\* C10: when ffprobe exits with a non-zero status the probe throws an Error
\* carrying the text read from standard error and returns no orientation,
\* whatever standard output held; the upload then writes nothing to the
\* bucket and does not update the record.
C10_NonZeroExitFailsProbe ==
    \A r \in Reqs :
        local[r].exited # 0 =>
            /\ pc[r] = "done"
            /\ resp[r].error = Err("Error", local[r].stderrText)
            /\ local[r].videoOrientation = ""
            /\ hist[r][Len(hist[r])] =
                   Ev("ffprobe", "fail", filepathOf(local[r].filename))
            /\ ~HasEv(r, "s3.write", "begin")
            /\ ~HasEv(r, "updateVideo", "end")
            /\ \A o \in s3 : o.body # r
            /\ \A v \in DOMAIN db : db[v].videoURL \notin URLsOf(r)

\* C10 witness: ffprobe printed a stream with numeric width and height and
\* still exited with status 1; the request failed with the standard-error text
C10_Witness ==
    \E r \in Reqs :
        /\ local[r].exited = 1
        /\ local[r].stdoutText.json
        /\ Len(local[r].stdoutText.streams) = 1
        /\ local[r].stdoutText.streams[1] =
               [width |-> Num(1920), height |-> Num(1080)]
        /\ local[r].stderrText = "moov atom not found"
        /\ resp[r].error.message = "moov atom not found"

\* standard output from which the probe can take a width and a height: it
\* parses, it has a first stream, and that stream's width and height are
\* numbers
NumericGeometry(stdoutText) ==
    /\ stdoutText.json
    /\ Len(stdoutText.streams) >= 1
    /\ "width" \in DOMAIN stdoutText.streams[1]
    /\ stdoutText.streams[1].width.type = "number"
    /\ stdoutText.streams[1].height.type = "number"

\* the errors the probe throws on unusable output
MalformedProbeOutput ==
    {Err("SyntaxError", "JSON Parse error"),
     Err("Error", "Stream is not defined"),
     Err("TypeError", "null is not an object"),
     Err("Error", "Width is not a number"),
     Err("Error", "Height is not a number")}

\* C11: when ffprobe has exited with status 0 and its output does not parse,
\* has no stream entry, or has a first stream whose width or height is no
\* number, the probe throws one of the errors for unusable output and
\* returns no orientation, and the request ends there; the probe returns an
\* orientation only when the first stream has a numeric width and height.
C11_MalformedOutputFailsProbe ==
    \A r \in Reqs :
        /\ (proc[r].exitRead /\ local[r].exited = 0
                /\ ~NumericGeometry(local[r].stdoutText)) =>
              /\ pc[r] = "done"
              /\ resp[r].error \in MalformedProbeOutput
              /\ resp[r].status = 500
              /\ local[r].videoOrientation = ""
              /\ hist[r][Len(hist[r])] =
                     Ev("ffprobe", "fail", filepathOf(local[r].filename))
        /\ (proc[r].exitRead /\ local[r].exited = 0
                /\ NumericGeometry(local[r].stdoutText)) =>
              /\ local[r].videoOrientation \in VideoOrientation
              /\ HasEv(r, "ffprobe", "end")
        /\ local[r].videoOrientation # "" =>
              /\ proc[r].exitRead
              /\ local[r].exited = 0
              /\ NumericGeometry(local[r].stdoutText)

\* C11 witness: ffprobe exited with status 0 after printing a first stream
\* without a width, and the request failed on it
C11_Witness ==
    \E r \in Reqs :
        /\ proc[r].exitRead
        /\ local[r].exited = 0
        /\ local[r].stdoutText =
               [json |-> TRUE,
                streams |-> <<[width |-> Undefined, height |-> Num(1080)]>>]
        /\ resp[r].error = Err("Error", "Width is not a number")

\* C12: a failure of the deletion of the staged file is suppressed and never
\* propagates: a request whose deletion failed still answers 200 with the
\* record it persisted, and no request ends with the deletion's error.
C12_DeleteFailureSuppressed ==
    \A r \in Reqs :
        (pc[r] = "done" /\ HasEv(r, "delete", "fail")) =>
            /\ resp[r].status = 200
            /\ resp[r].error = NoError
            /\ resp[r].body = local[r].newVideo

\* request r performs its record update in this step
Updates(r) ==
    /\ ~HasEv(r, "updateVideo", "end")
    /\ HasEv(r, "updateVideo", "end")'

\* a step in which each request that executes its record update leaves the
\* record with its own videoURL, and a step without an update leaves every
\* videoURL as it was
LastWriterStep ==
    /\ \A r \in Reqs :
          Updates(r) =>
              db'[input[r].videoId].videoURL =
                  videoURLOf(local[r].videoOrientation, local[r].filename)
    /\ (\A r \in Reqs : ~Updates(r)) =>
          \A v \in DOMAIN db : db'[v].videoURL = db[v].videoURL

\* C13: uploads to the same videoId are not serialized and the last writer
\* wins: the step in which a request executes its record update leaves the
\* record holding the videoURL of that request, whatever it held before, and
\* no other step changes a videoURL; so the final videoURL is that of the
\* request that updated last, and it names an object which that same request
\* has placed in the bucket.
C13_LastWriterWins ==
    /\ [](\A v \in DOMAIN db :
            db[v].videoURL # NoURL =>
                \E r \in Reqs :
                    /\ HasEv(r, "updateVideo", "end")
                    /\ input[r].videoId = v
                    /\ db[v].videoURL = PersistedBy(r)
                    /\ \E o \in s3 :
                          /\ o.body = r
                          /\ o.key = SubSeq(PersistedBy(r), 6, 10))
    /\ [][LastWriterStep]_vars

\* C13 witness: two uploads by the owner to the same record have both
\* answered 200, each with its own videoURL, and the record holds one of them
C13_Witness ==
    \E r, q \in Reqs :
        /\ r # q
        /\ input[r].videoId = input[q].videoId
        /\ pc[r] = "done" /\ resp[r].status = 200
        /\ pc[q] = "done" /\ resp[q].status = 200
        /\ resp[r].body.videoURL # resp[q].body.videoURL
        /\ db[input[r].videoId].videoURL = resp[r].body.videoURL

\* request r has its staged file in use: written, and not yet deleted by r
StagedInUse(r) ==
    /\ HasEv(r, "Bun.write", "end")
    /\ ~HasEv(r, "delete", "end")

\* C14: concurrent uploads never share a staging path: two requests that
\* have chosen a file name have different paths; every write, probe, upload
\* and deletion of a request names the path of its own staged file; while a
\* request has its staged file in use, that file is in /tmp with the bytes
\* this request wrote, so no other request's write has overwritten it and no
\* other request's deletion has removed it; and the object a request stored
\* holds its own bytes.
C14_StagingPathsNeverShared ==
    /\ \A r, q \in Reqs :
          (r # q /\ local[r].filename # <<>> /\ local[q].filename # <<>>) =>
              filepathOf(local[r].filename) # filepathOf(local[q].filename)
    /\ \A r \in Reqs :
          /\ \A i \in 1..Len(hist[r]) :
                (hist[r][i].op \in {"Bun.write", "ffprobe", "delete"}
                   \/ (hist[r][i].op = "s3.write" /\ hist[r][i].at # "end")) =>
                    hist[r][i].arg = filepathOf(local[r].filename)
          /\ StagedInUse(r) =>
                [path |-> filepathOf(local[r].filename), body |-> r] \in tmp
          /\ HasEv(r, "s3.write", "end") =>
                \E o \in s3 :
                    /\ o.key = keyOf(local[r].videoOrientation, local[r].filename)
                    /\ o.body = r
    /\ \A f \in tmp :
          /\ f.body \in Reqs
          /\ f.path = filepathOf(local[f.body].filename)

\* C14 witness: one request has run to its end and deleted its staged file
\* while the other, in flight since before that deletion, still has its own
\* staged file and is waiting for the probe
C14_Witness ==
    \E r, q \in Reqs :
        /\ r # q
        /\ pc[r] = "done"
        /\ HasEv(r, "delete", "end")
        /\ pc[q] \in {"stdout", "stderr", "exited", "s3write"}
        /\ StagedInUse(q)
        /\ [path |-> filepathOf(local[q].filename), body |-> q] \in tmp

\* the classification of every width and height ffprobe may report, worked
\* out once
ProbedOrientations ==
    {<<t, getVideoOrientationFromDimensions(t.streams[1].width.val,
                                            t.streams[1].height.val)>> :
        t \in {u \in StdoutTexts : NumericGeometry(u)}}

\* C15: a request whose write to the bucket has completed has stored its
\* object under the key {orientation}/{randomName}.{extension}, where
\* randomName.extension is the name of the staged file this request wrote
\* and probed, extension is the subtype of the declared type and orientation
\* is the classification of the width and height ffprobe reported for that
\* file; the videoURL the request persists ends in exactly this key.
C15_KeyIsOrientationAndStagedName ==
    \A r \in Reqs :
        HasEv(r, "s3.write", "end") =>
            LET filename == local[r].filename
                key == <<local[r].videoOrientation, "/">> \o filename
            IN  /\ Len(filename) = 3
                /\ filename[1] \in RandomNames
                /\ filename[2] = "."
                /\ filename[3] = input[r].video.type[2]
                /\ Ev("Bun.write", "end", <<"/tmp", "/">> \o filename)
                       \in {hist[r][i] : i \in 1..Len(hist[r])}
                /\ Ev("ffprobe", "end", <<"/tmp", "/">> \o filename)
                       \in {hist[r][i] : i \in 1..Len(hist[r])}
                /\ <<local[r].stdoutText, local[r].videoOrientation>>
                       \in ProbedOrientations
                /\ Ev("s3.write", "end", key)
                       \in {hist[r][i] : i \in 1..Len(hist[r])}
                /\ \E o \in s3 : o.key = key /\ o.body = r
                /\ HasEv(r, "updateVideo", "end") =>
                      /\ Len(PersistedBy(r)) = 5 + Len(key)
                      /\ SubSeq(PersistedBy(r), 6, Len(PersistedBy(r))) = key
                      /\ db[input[r].videoId].videoURL \in URLsOf(r) =>
                            db[input[r].videoId].videoURL = PersistedBy(r)

\* C15 witness: an upload whose staged file was probed at 1080 x 1920 has
\* answered 200; its object is under portrait/ followed by the staged name
C15_Witness ==
    \E r \in Reqs :
        /\ pc[r] = "done"
        /\ resp[r].status = 200
        /\ local[r].stdoutText.streams[1] =
               [width |-> Num(1080), height |-> Num(1920)]
        /\ \E o \in s3 :
              /\ o.body = r
              /\ o.key = <<"portrait", "/">> \o local[r].filename
        /\ db[input[r].videoId].videoURL =
               <<"https://", cfg.s3Bucket, ".s3.", cfg.s3Region,
                 ".amazonaws.com/", "portrait", "/">> \o local[r].filename

\* C16: the probe reads standard output and then standard error of the
\* child process to their end before it awaits and inspects the exit status,
\* whether the status turns out zero or not: whenever the exit status is
\* about to be read or has been read, both pipes are drained.
C16_StreamsDrainedBeforeExitStatus ==
    \A r \in Reqs :
        /\ (pc[r] = "exited" \/ proc[r].exitRead) =>
              /\ proc[r].stdout = "drained"
              /\ proc[r].stderr = "drained"
        /\ proc[r].stderr = "drained" => proc[r].stdout = "drained"
        /\ (HasEv(r, "ffprobe", "end") \/ HasEv(r, "ffprobe", "fail")) =>
              /\ proc[r].exitRead
              /\ proc[r].stdout = "drained"
              /\ proc[r].stderr = "drained"
        /\ proc[r].stdout = "open" => pc[r] = "stdout"
        /\ proc[r].stderr = "open" => pc[r] \in {"stdout", "stderr"}

\* C16 witness: the probe failed on exit status 1 with both pipes drained,
\* and carries the text read from standard error
C16_Witness ==
    \E r \in Reqs :
        /\ proc[r].exitRead
        /\ local[r].exited = 1
        /\ proc[r].stdout = "drained"
        /\ proc[r].stderr = "drained"
        /\ HasEv(r, "ffprobe", "fail")
        /\ resp[r].error = Err("Error", "moov atom not found")

\* C17: a video upload changes only the videoURL of its own record: the id
\* and the owner of every record stay as they were, and the thumbnailURL a
\* thumbnail upload has committed (it answered 200) is still in the record
\* afterwards, also when that upload committed between the video upload's
\* getVideo and its updateVideo.
C17_VideoUploadKeepsThumbnailURL ==
    /\ \A v \in DOMAIN db :
          /\ db[v].id = v
          /\ db[v].userID = InitialVideos[v].userID
    /\ \A t \in ThumbReqs :
          (tpc[t] = "done" /\ tresp[t].status = 200) =>
              db[tinput[t].videoId].thumbnailURL = tresp[t].body.thumbnailURL

\* thumbnail request t was made by the owner of the record it names
ThumbOwner(t) ==
    /\ tinput[t].videoId \in DOMAIN db
    /\ validateJWT(tinput[t].token).ok
    /\ db[tinput[t].videoId].userID = validateJWT(tinput[t].token).userID

\* the map and the records change only in the last step of a thumbnail
\* request of the record's owner, which puts its own bytes in the map
OwnerWritesOnly ==
    (videoThumbnails' # videoThumbnails \/ db' # db) =>
        \E t \in ThumbReqs :
            /\ ThumbOwner(t)
            /\ tpc[t] = "arrayBuffer"
            /\ tpc'[t] = "done"
            /\ tresp'[t].status \in {200, 500}
            /\ videoThumbnails' =
                   MapSet(videoThumbnails, tinput[t].videoId,
                          [data |-> t, mediaType |-> tinput[t].thumbnail.type])
            /\ \A v \in DOMAIN db \ {tinput[t].videoId} : db'[v] = db[v]

\* C18: with the thumbnails kept in memory, a thumbnail upload that is
\* refused (no videoId, invalid credential, no file, more than 10 MiB, record
\* absent or owned by another user) changes neither the map nor any record
\* in any of its steps, and an entry of the map for a videoId is written only
\* by a request whose authenticated user owns that video.
C18_RejectedThumbnailChangesNothing ==
    /\ [](/\ DOMAIN videoThumbnails \subseteq DOMAIN db
          /\ \A v \in DOMAIN videoThumbnails :
                LET t == videoThumbnails[v].data
                IN  /\ t \in ThumbReqs
                    /\ tinput[t].videoId = v
                    /\ ThumbOwner(t)
                    /\ tresp[t].status \in {200, 500}
          /\ \A t \in ThumbReqs :
                (tpc[t] = "done" /\ tresp[t].status \in {400, 401, 403}) =>
                    \A v \in DOMAIN videoThumbnails :
                        videoThumbnails[v].data # t
          /\ \A t \in ThumbReqs :
                (tpc[t] = "done" /\ ~ThumbOwner(t)) =>
                    tresp[t].status \in {400, 401, 403})
    /\ [][OwnerWritesOnly]_vars

\* C18 witness: the owner's thumbnail is in the map and in the record, and
\* another user's upload for the same video has been refused with
\* UserForbiddenError, leaving the owner's entry in place
C18_Witness ==
    \E t, q \in ThumbReqs :
        /\ t # q
        /\ tinput[t].videoId = "v1" /\ tinput[q].videoId = "v1"
        /\ tpc[t] = "done" /\ tresp[t].status = 200
        /\ tpc[q] = "done" /\ tresp[q].error.name = "UserForbiddenError"
        /\ "v1" \in DOMAIN videoThumbnails
        /\ videoThumbnails["v1"].data = t
        /\ db["v1"].thumbnailURL = thumbnailURLOf("v1")

\* C19: with the thumbnails stored as asset files, a thumbnail upload that
\* has answered 200 has its asset file completely written, and a record's
\* thumbnailURL points to an asset file that is completely written: the
\* record is not updated and the response is not sent while the write of the
\* file is pending or after it has failed.
C19_AssetWrittenBeforeRecordAndResponse ==
    \A t \in ThumbReqs :
        /\ (tpc[t] = "done" /\ tresp[t].status = 200) =>
              [path |-> assetFilepathOf(tlocal[t].filename), body |-> t]
                  \in assets
        /\ tlocal[t].filename # <<>> =>
              \A v \in DOMAIN db :
                  db[v].thumbnailURL = assetURLOf(tlocal[t].filename) =>
                      \E f \in assets :
                          f.path = assetFilepathOf(tlocal[t].filename)

====
